---- MODULE Spec2Model ----
(***************************************************************************)
(* PID playground: the PIDController update law with anti-windup, the      *)
(* SystemSimulation plant models and the simulation loop of main().        *)
(*                                                                         *)
(* Python floats are modelled as exact rationals <<numerator, denominator>>*)
(* in lowest terms with a positive denominator; rounding error is not      *)
(* modelled.  <<>> stands for None, <<1, 0>> for a non-finite float        *)
(* (inf or nan).                                                           *)
(***************************************************************************)
EXTENDS Integers, Sequences, FiniteSets, TLC

VARIABLES
    pid,        \* the PIDController object
    pre,        \* the PIDController's fields when the last call started
    call,       \* the last call on the controller: [op, error, dt]; an update also
                \* records the call it came after, the limit it hit and the length of the
                \* run of updates it ends, set_gains the gains it was given
    ret,        \* what the last update returned (<<>> before any update)
    fresh,      \* a controller constructed at the last reset() with the same gains and limits
    freshRet,   \* what the last update of fresh returned
    resetFrom,  \* the controller's fields when reset() was last called (<<>> before)
    steps,      \* number of calls made so far
    retunes,    \* number of set_gains and set_output_limits calls made so far
    sys,        \* the SystemSimulation object
    sysRaised,  \* the exception the last call on the plant raised ("none" if none)
    sysPre,     \* the plant's fields when the last call started
    sysCall,    \* the last call on the plant: [op, input_signal, dt, numpy]
    sysRet,     \* what the last plant update returned
    applied,    \* the <<input_signal, dt>> of the updates made since the state was last set
    fromZero,   \* the state was last set by the constructor or reset()
    sysSteps,   \* number of calls made on the plant so far
    twin,       \* a second plant given the same calls, but the other initial rate in each
                \* set_initial_conditions: [obj, ret, raised]
    settings,   \* main's Kp, Ki, Kd, setpoint, system_type and system_params
    sim_time,   \* main's sim_time
    pc,         \* where main is: start, loop_pid, loop_plant, final, done, or the exception raised
    time_steps, \* main's time_steps
    time_array, setpoint_array,
    output_array, control_signal_array, error_array,
                \* main's time_array, setpoint_array, output, control_signal, error
    i,          \* main's loop variable
    calls,      \* the update calls main has made, in order: [obj, arg, ret]
    simulation_data,  \* st.session_state['simulation_data'] (<<>> while absent)
    metric      \* a call of calculate_settling_time: [output, setpoint, time_array,
                \* settling_time], settling_time <<>> until it has returned

pidVars == <<pid, pre, call, ret, fresh, freshRet, resetFrom, steps, retunes>>

pidCalls == <<pre, call, ret, fresh, freshRet, resetFrom, steps, retunes>>

plantVars == <<sys, sysRaised, sysPre, sysCall, sysRet, applied, fromZero, sysSteps, twin>>

plantCalls == <<sysRaised, sysPre, sysCall, sysRet, applied, fromZero, sysSteps, twin>>

runVars == <<settings, sim_time, pc, time_steps, time_array, setpoint_array, output_array,
             control_signal_array, error_array, i, calls, simulation_data>>

metricVars == <<metric>>

vars == <<pidVars, plantVars, runVars, metricVars>>

-----------------------------------------------------------------------------
(* Bounds *)

MaxSteps == 3

MaxRetunes == 1

MaxSysSteps == 3
MaxLen == 3

-----------------------------------------------------------------------------
(* Float arithmetic, as exact rationals *)

None == <<>>

AbsInt(n) == IF n < 0 THEN -n ELSE n

RECURSIVE GCD(_, _)
GCD(a, b) == IF b = 0 THEN a ELSE GCD(b, a % b)

Norm(n, d) ==
    LET g == GCD(AbsInt(n), AbsInt(d))
        s == IF d < 0 THEN -1 ELSE 1
    IN  <<(s * n) \div g, (s * d) \div g>>

R(n) == <<n, 1>>
Q(n, d) == Norm(n, d)

Zero == R(0)

RNeg(a) == <<-a[1], a[2]>>

RAdd(a, b) ==
    LET g == GCD(a[2], b[2])
    IN  Norm(a[1] * (b[2] \div g) + b[1] * (a[2] \div g), (a[2] \div g) * b[2])

RSub(a, b) == RAdd(a, RNeg(b))

RMul(a, b) ==
    LET g1 == GCD(AbsInt(a[1]), b[2])
        g2 == GCD(AbsInt(b[1]), a[2])
    IN  Norm((a[1] \div g1) * (b[1] \div g2), (a[2] \div g2) * (b[2] \div g1))

\* a / b for b # 0
RDiv(a, b) == RMul(a, Norm(b[2], b[1]))

RLt(a, b) == a[1] * b[2] < b[1] * a[2]
RGt(a, b) == RLt(b, a)
RLe(a, b) == ~RLt(b, a)

-----------------------------------------------------------------------------
(* PIDController *)

\* __init__
NewPID(Kp, Ki, Kd, output_limits) ==
    [Kp |-> Kp, Ki |-> Ki, Kd |-> Kd,
     integral |-> Zero, previous_error |-> Zero,
     output_limits |-> output_limits,
     proportional_term |-> Zero, integral_term |-> Zero, derivative_term |-> Zero]

\* a derivative that divides by a substitute step when dt is 0
DerivativeUnitStep(error, previous_error, dt) ==
    RDiv(RSub(error, previous_error), IF RGt(dt, Zero) THEN dt ELSE R(1))

\* derivative = (error - self.previous_error) / dt if dt > 0 else 0.0
Derivative(error, previous_error, dt) ==
    IF RGt(dt, Zero) THEN RDiv(RSub(error, previous_error), dt) ELSE Zero

\* a back-solve that leaves out the derivative term
BackSolveNoD(bound, P, D, Ki) ==
    IF Ki # Zero THEN RDiv(RSub(bound, P), Ki) ELSE Zero

\* a back-solve that divides by 1 when Ki is 0
BackSolveUnitKi(bound, P, D, Ki) ==
    RDiv(RSub(RSub(bound, P), D), IF Ki # Zero THEN Ki ELSE R(1))

\* (bound - P - D) / Ki if Ki != 0 else 0
BackSolve(bound, P, D, Ki) ==
    IF Ki # Zero THEN RDiv(RSub(RSub(bound, P), D), Ki) ELSE Zero

\* a saturation test that forgets the lower limit
SaturationHighOnly(output, output_limits) ==
    IF output_limits # None /\ RGt(output, output_limits[2]) THEN "high" ELSE "none"

\* which branch of "if self.output_limits: if output > max ... elif output < min" is taken
Saturation(output, output_limits) ==
    IF output_limits = None THEN "none"
    ELSE IF RGt(output, output_limits[2]) THEN "high"
    ELSE IF RLt(output, output_limits[1]) THEN "low"
    ELSE "none"

\* an update that clamps the output and leaves the accumulated integral as it is
PIDUpdateNoAntiWindup(p, error, dt) ==
    LET P == RMul(p.Kp, error)
        integral == RAdd(p.integral, RMul(error, dt))
        I == RMul(p.Ki, integral)
        D == RMul(p.Kd, Derivative(error, p.previous_error, dt))
        output == RAdd(RAdd(P, I), D)
        sat == Saturation(output, p.output_limits)
    IN  [pid |-> [p EXCEPT
                    !.proportional_term = P,
                    !.integral_term = I,
                    !.derivative_term = D,
                    !.integral = integral,
                    !.previous_error = error],
         ret |-> CASE sat = "high" -> p.output_limits[2]
                   [] sat = "low" -> p.output_limits[1]
                   [] OTHER -> output,
         sat |-> sat]

\* update(error, dt): the mutated object and the returned control signal
PIDUpdate(p, error, dt) ==
    LET P == RMul(p.Kp, error)
        integral == RAdd(p.integral, RMul(error, dt))
        I == RMul(p.Ki, integral)
        D == RMul(p.Kd, Derivative(error, p.previous_error, dt))
        output == RAdd(RAdd(P, I), D)
        sat == Saturation(output, p.output_limits)
    IN  [pid |-> [p EXCEPT
                    !.proportional_term = P,
                    !.integral_term = I,
                    !.derivative_term = D,
                    !.integral =
                        CASE sat = "high" -> BackSolve(p.output_limits[2], P, D, p.Ki)
                          [] sat = "low" -> BackSolve(p.output_limits[1], P, D, p.Ki)
                          [] OTHER -> integral,
                    !.previous_error = error],
         ret |-> CASE sat = "high" -> p.output_limits[2]
                   [] sat = "low" -> p.output_limits[1]
                   [] OTHER -> output,
         sat |-> sat]

\* a reset that leaves previous_error behind
PIDResetKeepsError(p) ==
    [p EXCEPT !.integral = Zero,
              !.proportional_term = Zero, !.integral_term = Zero, !.derivative_term = Zero]

\* reset()
PIDReset(p) ==
    [p EXCEPT !.integral = Zero, !.previous_error = Zero,
              !.proportional_term = Zero, !.integral_term = Zero, !.derivative_term = Zero]

\* a set_gains that rescales the accumulated integral to the new Ki
PIDSetGainsRescaling(p, Kp, Ki, Kd) ==
    [p EXCEPT !.Kp = Kp, !.Ki = Ki, !.Kd = Kd,
              !.integral = IF Ki # Zero THEN RDiv(RMul(p.Ki, p.integral), Ki) ELSE p.integral]

\* set_gains(Kp, Ki, Kd)
PIDSetGains(p, Kp, Ki, Kd) == [p EXCEPT !.Kp = Kp, !.Ki = Ki, !.Kd = Kd]

\* set_output_limits(min_output, max_output)
PIDSetOutputLimits(p, min_output, max_output) ==
    [p EXCEPT !.output_limits = <<min_output, max_output>>]

-----------------------------------------------------------------------------
(* Inputs of the controller's calls *)

GainValues ==
    {<<R(1), R(1), R(1)>>, <<R(2), Zero, R(1)>>, <<R(2), Q(1, 2), Zero>>,
     <<Zero, R(2), Zero>>, <<R(-1), R(-1), R(2)>>, <<R(1), R(-2), R(-1)>>,
     <<Zero, Zero, Zero>>, <<R(3), R(1), Q(1, 2)>>}
ErrorValues == {R(-3), Zero, R(2)}
DtValues == {Zero, Q(1, 2)}
LimitValues == {<<R(-1), R(1)>>, <<Zero, Q(3, 2)>>}
NewGainValues == {<<R(1), Zero, R(2)>>, <<R(2), R(-1), Zero>>}

NoCall == [op |-> "none", error |-> Zero, dt |-> Zero]

\* how many consecutive updates, the one with this error, dt and limit hit included,
\* had the same error and dt and hit the same limit (0 when this one hit none)
RunLength(last, error, dt, sat) ==
    IF sat = "none" THEN 0
    ELSE IF last.op = "update" /\ last.error = error /\ last.dt = dt /\ last.sat = sat
    THEN last.run + 1
    ELSE 1

-----------------------------------------------------------------------------
(* The controller driven by arbitrary calls *)

InitPID ==
    /\ \E g \in GainValues, lim \in {None} \cup LimitValues :
            pid = NewPID(g[1], g[2], g[3], lim)
    /\ pre = pid
    /\ call = NoCall
    /\ ret = None
    /\ fresh = pid
    /\ freshRet = None
    /\ resetFrom = None
    /\ steps = 0
    /\ retunes = 0

Update ==
    /\ steps < MaxSteps
    /\ \E error \in ErrorValues, dt \in DtValues :
        /\ pre' = pid
        /\ call' = [op |-> "update", error |-> error, dt |-> dt, after |-> call.op,
                     sat |-> PIDUpdate(pid, error, dt).sat,
                     run |-> RunLength(call, error, dt, PIDUpdate(pid, error, dt).sat)]
        /\ pid' = PIDUpdate(pid, error, dt).pid
        /\ ret' = PIDUpdate(pid, error, dt).ret
        /\ fresh' = PIDUpdate(fresh, error, dt).pid
        /\ freshRet' = PIDUpdate(fresh, error, dt).ret
    /\ steps' = steps + 1
    /\ UNCHANGED <<resetFrom, retunes>>

Reset ==
    /\ steps < MaxSteps
    /\ pre' = pid
    /\ call' = [op |-> "reset", error |-> Zero, dt |-> Zero]
    /\ pid' = PIDReset(pid)
    /\ fresh' = NewPID(pid.Kp, pid.Ki, pid.Kd, pid.output_limits)
    /\ resetFrom' = pid
    /\ ret' = None
    /\ freshRet' = None
    /\ steps' = steps + 1
    /\ UNCHANGED retunes

SetGains ==
    /\ steps < MaxSteps
    /\ retunes < MaxRetunes
    /\ \E g \in NewGainValues :
        /\ pid' = PIDSetGains(pid, g[1], g[2], g[3])
        /\ fresh' = PIDSetGains(fresh, g[1], g[2], g[3])
        /\ call' = [op |-> "set_gains", error |-> Zero, dt |-> Zero, gains |-> g]
    /\ pre' = pid
    /\ steps' = steps + 1
    /\ retunes' = retunes + 1
    /\ UNCHANGED <<ret, freshRet, resetFrom>>

SetOutputLimits ==
    /\ steps < MaxSteps
    /\ retunes < MaxRetunes
    /\ \E lim \in LimitValues :
        /\ pid' = PIDSetOutputLimits(pid, lim[1], lim[2])
        /\ fresh' = PIDSetOutputLimits(fresh, lim[1], lim[2])
    /\ pre' = pid
    /\ call' = [op |-> "set_output_limits", error |-> Zero, dt |-> Zero]
    /\ steps' = steps + 1
    /\ retunes' = retunes + 1
    /\ UNCHANGED <<ret, freshRet, resetFrom>>

-----------------------------------------------------------------------------
(* SystemSimulation *)

NonFinite == <<1, 0>>

\* params.get(key, default)
Get(params, key, default) == IF key \in DOMAIN params THEN params[key] ELSE default

SystemTypes == {"First Order", "Second Order", "Integrator"}

\* the attributes every __init__ sets before _initialize_system runs
BareSystem(system_type, params) ==
    [system_type |-> system_type, params |-> params,
     output |-> Zero, output_dot |-> Zero, previous_input |-> Zero,
     time_constant |-> None, damping |-> None, natural_freq |-> None, gain |-> None]

\* _initialize_system, one branch for each recognized type
FirstOrderSystem(system_type, params) ==
    [BareSystem(system_type, params) EXCEPT
        !.time_constant = Get(params, "time_constant", R(1)),
        !.gain = Get(params, "gain", R(1))]

SecondOrderSystem(system_type, params) ==
    [BareSystem(system_type, params) EXCEPT
        !.damping = Get(params, "damping", Q(1, 2)),
        !.natural_freq = Get(params, "natural_freq", R(1)),
        !.gain = Get(params, "gain", R(1))]

IntegratorSystem(system_type, params) ==
    [BareSystem(system_type, params) EXCEPT !.gain = Get(params, "gain", R(1))]

\* a constructor whose last branch is the integrator instead of the raise
NewSystemDefaulting(system_type, params) ==
    CASE system_type = "First Order" ->
            [raised |-> "none", obj |-> FirstOrderSystem(system_type, params)]
      [] system_type = "Second Order" ->
            [raised |-> "none", obj |-> SecondOrderSystem(system_type, params)]
      [] OTHER ->
            [raised |-> "none", obj |-> IntegratorSystem(system_type, params)]

\* __init__ and _initialize_system: the exception raised ("none" if none) and the
\* object as far as it was built
NewSystem(system_type, params) ==
    CASE system_type = "First Order" ->
            [raised |-> "none", obj |-> FirstOrderSystem(system_type, params)]
      [] system_type = "Second Order" ->
            [raised |-> "none", obj |-> SecondOrderSystem(system_type, params)]
      [] system_type = "Integrator" ->
            [raised |-> "none", obj |-> IntegratorSystem(system_type, params)]
      [] OTHER ->
            [raised |-> "ValueError", obj |-> BareSystem(system_type, params)]

\* _update_first_order.  numpy tells whether input_signal is a numpy.float64 (an
\* element of one of main's arrays) or a Python float: dividing a Python float by
\* zero raises ZeroDivisionError before self.output is assigned, dividing a
\* numpy.float64 by zero yields inf or nan, which is stored and returned.
UpdateFirstOrder(s, input_signal, dt, numpy) ==
    IF s.output = NonFinite
    THEN [raised |-> "none", obj |-> s, ret |-> NonFinite]
    ELSE IF s.time_constant = Zero
    THEN IF numpy
         THEN [raised |-> "none", obj |-> [s EXCEPT !.output = NonFinite], ret |-> NonFinite]
         ELSE [raised |-> "ZeroDivisionError", obj |-> s, ret |-> None]
    ELSE LET dydt == RDiv(RSub(RMul(s.gain, input_signal), s.output), s.time_constant)
             y == RAdd(s.output, RMul(dydt, dt))
         IN  [raised |-> "none", obj |-> [s EXCEPT !.output = y], ret |-> y]

\* a second-order step that advances output_dot from the already advanced output
UpdateSecondOrderSequential(s, input_signal, dt) ==
    LET wn == s.natural_freq
        zeta == s.damping
        y == RAdd(s.output, RMul(s.output_dot, dt))
        dx2dt == RAdd(RSub(RNeg(RMul(RMul(wn, wn), y)),
                           RMul(RMul(RMul(R(2), zeta), wn), s.output_dot)),
                      RMul(RMul(RMul(wn, wn), s.gain), input_signal))
    IN  [raised |-> "none",
         obj |-> [s EXCEPT !.output = y, !.output_dot = RAdd(s.output_dot, RMul(dx2dt, dt))],
         ret |-> y]

\* _update_second_order
UpdateSecondOrder(s, input_signal, dt) ==
    LET wn == s.natural_freq
        zeta == s.damping
        dx1dt == s.output_dot
        dx2dt == RAdd(RSub(RNeg(RMul(RMul(wn, wn), s.output)),
                           RMul(RMul(RMul(R(2), zeta), wn), s.output_dot)),
                      RMul(RMul(RMul(wn, wn), s.gain), input_signal))
        y == RAdd(s.output, RMul(dx1dt, dt))
    IN  [raised |-> "none",
         obj |-> [s EXCEPT !.output = y, !.output_dot = RAdd(s.output_dot, RMul(dx2dt, dt))],
         ret |-> y]

\* an integrator step that leaves out the gain
UpdateIntegratorNoGain(s, input_signal, dt) ==
    LET y == RAdd(s.output, RMul(input_signal, dt))
    IN  [raised |-> "none", obj |-> [s EXCEPT !.output = y], ret |-> y]

\* _update_integrator
UpdateIntegrator(s, input_signal, dt) ==
    LET dydt == RMul(s.gain, input_signal)
        y == RAdd(s.output, RMul(dydt, dt))
    IN  [raised |-> "none", obj |-> [s EXCEPT !.output = y], ret |-> y]

\* update(input_signal, dt)
SystemUpdate(s, input_signal, dt, numpy) ==
    CASE s.system_type = "First Order" -> UpdateFirstOrder(s, input_signal, dt, numpy)
      [] s.system_type = "Second Order" -> UpdateSecondOrder(s, input_signal, dt)
      [] s.system_type = "Integrator" -> UpdateIntegrator(s, input_signal, dt)
      [] OTHER -> [raised |-> "none", obj |-> s, ret |-> None]

\* reset()
SystemReset(s) ==
    [s EXCEPT !.output = Zero, !.output_dot = Zero, !.previous_input = Zero]

\* set_initial_conditions(initial_output, initial_output_dot)
SetInitialConditions(s, initial_output, initial_output_dot) ==
    [s EXCEPT !.output = initial_output, !.output_dot = initial_output_dot]

\* a get_system_info that reports current_output_dot for every type
GetSystemInfoWithRate(s) == <<s.system_type, s.output, s.params, s.output_dot>>

\* get_system_info(): <<type, current_output, parameters>>, with current_output_dot
\* appended for a second-order system
GetSystemInfo(s) ==
    IF s.system_type = "Second Order"
    THEN <<s.system_type, s.output, s.params, s.output_dot>>
    ELSE <<s.system_type, s.output, s.params>>

-----------------------------------------------------------------------------
(* Inputs of the plant's calls *)

TypeValues == SystemTypes \cup {"Third Order", "integrator"}

ParamValues(system_type) ==
    CASE system_type = "First Order" ->
            {<<>>, ("time_constant" :> Q(1, 10)),
             ("time_constant" :> Zero) @@ ("gain" :> R(2)),
             ("time_constant" :> R(2)) @@ ("gain" :> Q(1, 2))}
      [] system_type = "Second Order" ->
            {<<>>, ("damping" :> Q(1, 2)) @@ ("natural_freq" :> R(1)),
             ("damping" :> Q(1, 4)) @@ ("natural_freq" :> R(2)) @@ ("gain" :> R(2))}
      [] system_type = "Integrator" ->
            {<<>>, ("gain" :> R(5)), ("gain" :> Q(1, 10))}
      [] OTHER -> {<<>>, ("gain" :> R(1))}

InputValues == {R(-1), R(2)}
StepValues == {Q(1, 2), Q(1, 4)}
InitialOutputValues == {R(1)}
InitialRateValues == {Zero, R(2)}

NoSysCall == [op |-> "construct", input_signal |-> Zero, dt |-> Zero, numpy |-> FALSE]

-----------------------------------------------------------------------------
(* The plant driven by arbitrary calls *)

InitPlant ==
    /\ \E t \in TypeValues : \E prm \in ParamValues(t) :
        /\ sys = NewSystem(t, prm).obj
        /\ sysRaised = NewSystem(t, prm).raised
    /\ sysPre = sys
    /\ sysCall = NoSysCall
    /\ sysRet = None
    /\ applied = <<>>
    /\ fromZero = TRUE
    /\ sysSteps = 0
    /\ twin = [obj |-> sys, ret |-> None, raised |-> sysRaised]

\* the constructor returned an object
Constructed == sysCall.op = "construct" => sysRaised = "none"

SysUpdate ==
    /\ Constructed
    /\ sysSteps < MaxSysSteps
    /\ \E u \in InputValues, dt \in StepValues, numpy \in BOOLEAN :
        /\ sysCall' = [op |-> "update", input_signal |-> u, dt |-> dt, numpy |-> numpy]
        /\ sys' = SystemUpdate(sys, u, dt, numpy).obj
        /\ sysRet' = SystemUpdate(sys, u, dt, numpy).ret
        /\ sysRaised' = SystemUpdate(sys, u, dt, numpy).raised
        /\ applied' = Append(applied, <<u, dt>>)
        /\ twin' = [obj |-> SystemUpdate(twin.obj, u, dt, numpy).obj,
                     ret |-> SystemUpdate(twin.obj, u, dt, numpy).ret,
                     raised |-> SystemUpdate(twin.obj, u, dt, numpy).raised]
    /\ sysPre' = sys
    /\ sysSteps' = sysSteps + 1
    /\ UNCHANGED fromZero

SysReset ==
    /\ Constructed
    /\ sysSteps < MaxSysSteps
    /\ sysCall' = [NoSysCall EXCEPT !.op = "reset"]
    /\ sys' = SystemReset(sys)
    /\ twin' = [obj |-> SystemReset(twin.obj), ret |-> None, raised |-> "none"]
    /\ sysRet' = None
    /\ sysRaised' = "none"
    /\ applied' = <<>>
    /\ fromZero' = TRUE
    /\ sysPre' = sys
    /\ sysSteps' = sysSteps + 1

SysSetInitialConditions ==
    /\ Constructed
    /\ sysSteps < MaxSysSteps
    /\ \E y0 \in InitialOutputValues, ydot0 \in InitialRateValues :
        \E other \in InitialRateValues \ {ydot0} :
            /\ sys' = SetInitialConditions(sys, y0, ydot0)
            /\ twin' = [obj |-> SetInitialConditions(twin.obj, y0, other),
                         ret |-> None, raised |-> "none"]
    /\ sysCall' = [NoSysCall EXCEPT !.op = "set_initial_conditions"]
    /\ sysRet' = None
    /\ sysRaised' = "none"
    /\ applied' = <<>>
    /\ fromZero' = FALSE
    /\ sysPre' = sys
    /\ sysSteps' = sysSteps + 1

-----------------------------------------------------------------------------
(* main(): the simulation run behind the "Run Simulation" button *)

\* dt = 0.01
main_dt == Q(1, 100)

\* int(x) for a float x: truncation toward zero
IntTrunc(x) == IF x[1] >= 0 THEN x[1] \div x[2] ELSE -((-x[1]) \div x[2])

\* np.linspace(start, stop, num): num samples from start to stop, both included
Linspace(start, stop, num) ==
    [k \in 1..num |->
        IF num = 1 THEN start
        ELSE RAdd(start, RMul(R(k - 1), RDiv(RSub(stop, start), R(num - 1))))]

\* np.zeros(num), np.full(num, value)
Zeros(num) == [k \in 1..num |-> Zero]
Full(num, value) == [k \in 1..num |-> value]

\* the place of a[k] for a Python index k (negative k counts from the end);
\* the access raises IndexError when the place is outside 1..Len(a)
At(a, k) == IF k < 0 THEN Len(a) + k + 1 ELSE k + 1
InRange(a, k) == At(a, k) \in 1..Len(a)

\* The settings of a run.  The widgets' ranges leave runs of 100 to 10000
\* samples; the simulation is modelled for the durations below, which keep the
\* exact arithmetic small.
GainSettings ==
    {[Kp |-> R(10), Ki |-> Zero, Kd |-> Zero, setpoint |-> R(100),
      system_type |-> "First Order", system_params |-> ("time_constant" :> Q(1, 10))],
     [Kp |-> R(1), Ki |-> R(1), Kd |-> Zero, setpoint |-> R(100),
      system_type |-> "Second Order",
      system_params |-> ("damping" :> Q(1, 2)) @@ ("natural_freq" :> R(1))],
     [Kp |-> Zero, Ki |-> Zero, Kd |-> R(1), setpoint |-> R(100),
      system_type |-> "Integrator", system_params |-> ("gain" :> R(1))],
     [Kp |-> R(2), Ki |-> Zero, Kd |-> Q(1, 100), setpoint |-> R(10),
      system_type |-> "Integrator", system_params |-> ("gain" :> R(5))],
     [Kp |-> R(1), Ki |-> Q(1, 10), Kd |-> Q(1, 20), setpoint |-> Zero,
      system_type |-> "First Order", system_params |-> ("time_constant" :> R(1))]}

SimTimeValues == {Q(1, 200), Q(3, 200), Q(1, 50), Q(1, 40), Q(3, 100), Q(1, 25)}

NoData == <<>>

InitRun ==
    /\ settings \in GainSettings
    /\ sim_time \in SimTimeValues
    /\ pc = "start"
    /\ time_steps = 0
    /\ time_array = <<>>
    /\ setpoint_array = <<>>
    /\ output_array = <<>>
    /\ control_signal_array = <<>>
    /\ error_array = <<>>
    /\ i = 0
    /\ calls = <<>>
    /\ simulation_data = NoData

\* lines 138-156: the controller, the plant and the arrays; output_array[0] = 0.0
RunSetup ==
    /\ pc = "start"
    /\ pid' = NewPID(settings.Kp, settings.Ki, settings.Kd, None)
    /\ sys' = NewSystem(settings.system_type, settings.system_params).obj
    /\ LET n == IntTrunc(RDiv(sim_time, main_dt))
       IN  /\ time_steps' = n
           /\ time_array' = Linspace(Zero, sim_time, n)
           /\ setpoint_array' = Full(n, settings.setpoint)
           /\ output_array' = Zeros(n)
           /\ control_signal_array' = Zeros(n)
           /\ error_array' = Zeros(n)
           /\ pc' = IF n = 0 THEN "IndexError"
                    ELSE IF 1 < n THEN "loop_pid" ELSE "final"
    /\ i' = 1
    /\ UNCHANGED <<settings, sim_time, calls, simulation_data>>

\* lines 161-164: error[i-1] and control_signal[i-1]
LoopPID ==
    /\ pc = "loop_pid"
    /\ LET e == RSub(settings.setpoint, output_array[At(output_array, i - 1)])
           r == PIDUpdate(pid, e, main_dt)
       IN  /\ error_array' = [error_array EXCEPT ![At(error_array, i - 1)] = e]
           /\ pid' = r.pid
           /\ control_signal_array' =
                [control_signal_array EXCEPT ![At(control_signal_array, i - 1)] = r.ret]
           /\ calls' = Append(calls, [obj |-> "pid", arg |-> e, ret |-> r.ret])
    /\ pc' = "loop_plant"
    /\ UNCHANGED <<sys, settings, sim_time, time_steps, time_array, setpoint_array,
                   output_array, i, simulation_data>>

\* line 167: output_array[i], and the next i of range(1, time_steps)
LoopPlant ==
    /\ pc = "loop_plant"
    /\ LET u == control_signal_array[At(control_signal_array, i - 1)]
           r == SystemUpdate(sys, u, main_dt, TRUE)
       IN  /\ sys' = r.obj
           /\ output_array' = [output_array EXCEPT ![At(output_array, i)] = r.ret]
           /\ calls' = Append(calls, [obj |-> "plant", arg |-> u, ret |-> r.ret])
    /\ i' = i + 1
    /\ pc' = IF i + 1 < time_steps THEN "loop_pid" ELSE "final"
    /\ UNCHANGED <<pid, settings, sim_time, time_steps, time_array, setpoint_array,
                   control_signal_array, error_array, simulation_data>>

\* a run that leaves the last error at zero
FinishRunNoError ==
    /\ pc = "final"
    /\ pc' = IF InRange(control_signal_array, -2) THEN "done" ELSE "IndexError"
    /\ control_signal_array' =
            IF InRange(control_signal_array, -2)
            THEN [control_signal_array EXCEPT ![At(control_signal_array, -1)] =
                                            control_signal_array[At(control_signal_array, -2)]]
            ELSE control_signal_array
    /\ simulation_data' =
            IF InRange(control_signal_array, -2)
            THEN [time |-> time_array, setpoint |-> setpoint_array, output |-> output_array,
                  control_signal |-> control_signal_array', error |-> error_array]
            ELSE simulation_data
    /\ UNCHANGED <<pid, sys, settings, sim_time, time_steps, time_array, setpoint_array,
                   output_array, error_array, i, calls>>

\* lines 170-183: the last error, the held control signal, the stored result
FinishRun ==
    /\ pc = "final"
    /\ error_array' = [error_array EXCEPT ![At(error_array, -1)] =
                                RSub(settings.setpoint, output_array[At(output_array, -1)])]
    /\ pc' = IF InRange(control_signal_array, -2) THEN "done" ELSE "IndexError"
    /\ control_signal_array' =
            IF InRange(control_signal_array, -2)
            THEN [control_signal_array EXCEPT ![At(control_signal_array, -1)] =
                                            control_signal_array[At(control_signal_array, -2)]]
            ELSE control_signal_array
    /\ simulation_data' =
            IF InRange(control_signal_array, -2)
            THEN [time |-> time_array, setpoint |-> setpoint_array, output |-> output_array,
                  control_signal |-> control_signal_array', error |-> error_array']
            ELSE simulation_data
    /\ UNCHANGED <<pid, sys, settings, sim_time, time_steps, time_array, setpoint_array,
                   output_array, i, calls>>

-----------------------------------------------------------------------------
(* calculate_settling_time(output, setpoint, time_array, tolerance=0.02) *)

\* tolerance=0.02
tolerance == Q(1, 50)

\* np.abs on one sample
RAbs(x) == <<AbsInt(x[1]), x[2]>>

\* np.abs(output - setpoint) > target_range, sample by sample
SettlingMask(output, setpoint) ==
    [k \in 1..Len(output) |->
        RGt(RAbs(RSub(output[k], setpoint)), RMul(setpoint, tolerance))]

\* np.where(mask)[0][-1]: the Python index of the last True of a mask that has one
LastTrue(mask) ==
    (CHOOSE k \in 1..Len(mask) : mask[k] /\ \A j \in (k + 1)..Len(mask) : ~mask[j]) - 1

\* a settling time that is the time of the last violation itself
CalculateSettlingTimeAtViolation(output, setpoint, times) ==
    LET settling_mask == SettlingMask(output, setpoint)
        last_violation_idx == LastTrue(settling_mask)
    IN  IF \A k \in 1..Len(settling_mask) : ~settling_mask[k] THEN Zero
        ELSE IF last_violation_idx >= Len(times) - 1
        THEN times[At(times, -1)]
        ELSE times[At(times, last_violation_idx)]

\* lines 222-237
CalculateSettlingTime(output, setpoint, times) ==
    LET settling_mask == SettlingMask(output, setpoint)
        last_violation_idx == LastTrue(settling_mask)
    IN  IF \A k \in 1..Len(settling_mask) : ~settling_mask[k] THEN Zero
        ELSE IF last_violation_idx >= Len(times) - 1
        THEN times[At(times, -1)]
        ELSE times[At(times, last_violation_idx + 1)]

\* The arguments of a call.  The samples lie inside, on the edge of and outside
\* the 2% band of the setpoint 100; the setpoints are inside and outside the
\* slider's range; the time axes are main's linspace for a run of n samples and a
\* unit-step axis that does not start at 0, both as long as the output, as at
\* line 203.
SampleValues == {Zero, R(98), R(100), R(103)}
SetpointValues == {Zero, R(100), R(-50)}
Samples(n) == UNION {[1..m -> SampleValues] : m \in 0..n}
TimeAxes(n) == {Linspace(Zero, RMul(R(n), main_dt), n), Linspace(R(1), R(n), n)}

InitMetric ==
    \E output \in Samples(MaxLen) :
        \E setpoint \in SetpointValues :
            \E axis \in TimeAxes(Len(output)) :
                metric = [output |-> output, setpoint |-> setpoint, time_array |-> axis,
                          settling_time |-> None]

\* line 203: settling_time = calculate_settling_time(...)
SettlingTime ==
    /\ metric # None
    /\ metric.settling_time = None
    /\ metric' = [metric EXCEPT !.settling_time =
                    CalculateSettlingTime(metric.output, metric.setpoint, metric.time_array)]

-----------------------------------------------------------------------------
(* Properties of PIDController *)

\* the last call was update(call.error, call.dt)
Updated == call.op = "update"

\* P + I + D of the last update before the limits were applied
Unsaturated ==
    RAdd(RAdd(RMul(pre.Kp, call.error),
              RMul(pre.Ki, RAdd(pre.integral, RMul(call.error, call.dt)))),
         pid.derivative_term)

SaturatedHigh == pid.output_limits # None /\ RGt(Unsaturated, pid.output_limits[2])
SaturatedLow == pid.output_limits # None /\ RLt(Unsaturated, pid.output_limits[1])

\* Kp*error + Ki*integral + Kd*derivative from the integral stored by the last update
Recomputed ==
    RAdd(RAdd(RMul(pid.Kp, call.error), RMul(pid.Ki, pid.integral)), pid.derivative_term)

\* C1: with output_limits set and Ki # 0, after every update the output recomputed
\* from the stored integral and that call's P and D equals the returned value; it is
\* hi after an update that saturated high and lo after one that saturated low.
AntiWindupConsistency ==
    (Updated /\ pid.output_limits # None /\ pid.Ki # Zero) =>
        /\ Recomputed = ret
        /\ SaturatedHigh => Recomputed = pid.output_limits[2]
        /\ SaturatedLow => Recomputed = pid.output_limits[1]

\* an update after earlier updates that saturated high, with all three terms in play
AntiWindupWitness ==
    /\ Updated /\ steps >= 2 /\ pid.Ki # Zero /\ SaturatedHigh
    /\ pid.derivative_term # Zero /\ pid.proportional_term # Zero
    /\ pre.integral # Zero
    /\ pid.integral # RAdd(pre.integral, RMul(call.error, call.dt))

\* C2: with output_limits = (lo, hi), lo <= hi, every value update returns lies in
\* [lo, hi]; when P+I+D is already within [lo, hi] it is returned as it is and the
\* integral is not corrected.
OutputSaturation ==
    (Updated /\ pid.output_limits # None) =>
        /\ RLe(pid.output_limits[1], ret) /\ RLe(ret, pid.output_limits[2])
        /\ (~SaturatedHigh /\ ~SaturatedLow) =>
                /\ ret = Unsaturated
                /\ pid.integral = RAdd(pre.integral, RMul(call.error, call.dt))

\* an update that saturated low, after a reset and a change of gains or limits
OutputSaturationWitness ==
    /\ Updated /\ resetFrom # None /\ retunes >= 1
    /\ SaturatedLow /\ ret = pid.output_limits[1]

\* C3: reset() zeroes integral, previous_error and the three components and leaves
\* the gains and limits as they were; from then on the controller returns the same
\* controls and holds the same state as one freshly constructed with those gains
\* and limits and given the same calls.
ResetEquivalence ==
    /\ call.op = "reset" =>
            /\ pid.integral = Zero /\ pid.previous_error = Zero
            /\ pid.proportional_term = Zero /\ pid.integral_term = Zero
            /\ pid.derivative_term = Zero
            /\ pid.Kp = pre.Kp /\ pid.Ki = pre.Ki /\ pid.Kd = pre.Kd
            /\ pid.output_limits = pre.output_limits
    /\ resetFrom # None => (pid = fresh /\ ret = freshRet)

\* updates, then a reset of a controller with accumulated state, then an update
ResetEquivalenceWitness ==
    /\ resetFrom # None
    /\ resetFrom.integral # Zero /\ resetFrom.previous_error # Zero
    /\ resetFrom.derivative_term # Zero
    /\ Updated /\ pid.integral # Zero /\ pid.derivative_term # Zero

\* C4: update(error, 0) returns a value; its derivative term is 0, its integral term
\* is Ki times the integral as it was before the call, the integral stays at that
\* value unless the saturation correction replaces it, and previous_error becomes
\* the current error.
ZeroStepDefined ==
    (Updated /\ call.dt = Zero) =>
        /\ ret # None
        /\ pid.derivative_term = Zero
        /\ pid.integral_term = RMul(pid.Ki, pre.integral)
        /\ (~SaturatedHigh /\ ~SaturatedLow) => pid.integral = pre.integral
        /\ pid.previous_error = call.error

\* update(error, 0) with a derivative gain, an error that changed and an integral
ZeroStepWitness ==
    /\ Updated /\ call.dt = Zero
    /\ pid.Kd # Zero /\ call.error # pre.previous_error
    /\ pre.integral # Zero /\ pid.integral = pre.integral

\* C11: set_gains(Kp, Ki, Kd) replaces the three gains and changes nothing else, so
\* the update that follows it computes I = (new Ki) * (integral as it was before
\* set_gains + error*dt).
SetGainsFrame ==
    [][/\ call'.op = "set_gains" =>
            pid' = [pid EXCEPT !.Kp = call'.gains[1], !.Ki = call'.gains[2],
                               !.Kd = call'.gains[3]]
       /\ (call.op = "set_gains" /\ call'.op = "update") =>
            pid'.integral_term =
                RMul(call.gains[2], RAdd(pre.integral, RMul(call'.error, call'.dt)))]_vars

\* an update right after a set_gains made on a controller with an accumulated
\* integral and a previous error
SetGainsWitness ==
    /\ Updated /\ call.after = "set_gains" /\ steps = 3
    /\ pre.integral # Zero /\ pre.previous_error # Zero
    /\ pid.integral_term # Zero /\ call.dt # Zero /\ call.error # Zero

\* the integral the last update accumulated before the limits were applied
Accumulated == RAdd(pre.integral, RMul(call.error, call.dt))

\* after an update that saturated with Ki > 0 the integral is not beyond the
\* accumulated one
IntegralHeld ==
    /\ (Updated /\ RGt(pid.Ki, Zero) /\ SaturatedHigh) => RLe(pid.integral, Accumulated)
    /\ (Updated /\ RGt(pid.Ki, Zero) /\ SaturatedLow) => RLe(Accumulated, pid.integral)

\* C14: with output_limits set and Ki > 0, over a run of consecutive updates with
\* the same error and the same dt > 0 that all saturate high, the integral has the
\* same value after every update from the second of the run onward, and after any
\* update that saturated high it is no greater than the integral before the call
\* plus error*dt; symmetrically for low saturation.
NoWindupWhileSaturated ==
    /\ IntegralHeld
    /\ (/\ Updated /\ call.run >= 3
        /\ RGt(pid.Ki, Zero) /\ RGt(call.dt, Zero)) => pid.integral = pre.integral

\* the third update of a run that saturated high with a nonzero error, Ki > 0 and
\* dt > 0
NoWindupWitness ==
    /\ Updated /\ call.run = 3 /\ call.sat = "high" /\ SaturatedHigh
    /\ RGt(pid.Ki, Zero) /\ RGt(call.dt, Zero) /\ call.error # Zero
    /\ pid.integral = pre.integral /\ RLt(pid.integral, Accumulated)

\* C15: with output_limits set and Ki = 0, an update whose unsaturated output is
\* outside [lo, hi] returns the violated bound and leaves the integral 0, whatever
\* had been accumulated; an update that does not saturate leaves the integral at
\* integral + error*dt.
ZeroKiSaturation ==
    (Updated /\ pid.output_limits # None /\ pid.Ki = Zero) =>
        /\ SaturatedHigh => (ret = pid.output_limits[2] /\ pid.integral = Zero)
        /\ SaturatedLow => (ret = pid.output_limits[1] /\ pid.integral = Zero)
        /\ (~SaturatedHigh /\ ~SaturatedLow) => pid.integral = Accumulated

\* a saturated update with Ki = 0 of a controller that had accumulated an integral
ZeroKiWitness ==
    /\ Updated /\ pid.output_limits # None /\ pid.Ki = Zero
    /\ (SaturatedHigh \/ SaturatedLow)
    /\ pre.integral # Zero /\ Accumulated # Zero /\ pid.integral = Zero
    /\ ret # Unsaturated

-----------------------------------------------------------------------------
(* Properties of SystemSimulation *)

\* C5: construction with an unrecognized system_type raises and sets up none of the
\* variants; construction with a recognized type succeeds with output and
\* output_dot zero.
ConstructionChecksType ==
    sysCall.op = "construct" =>
        /\ sys.system_type \in SystemTypes <=> sysRaised = "none"
        /\ sys.system_type \notin SystemTypes =>
                /\ sysRaised = "ValueError"
                /\ sys.gain = None /\ sys.time_constant = None
                /\ sys.damping = None /\ sys.natural_freq = None
        /\ sysRaised = "none" => (sys.output = Zero /\ sys.output_dot = Zero)

\* a construction with an unrecognized type
ConstructionWitness ==
    /\ sysCall.op = "construct"
    /\ sys.system_type \notin SystemTypes
    /\ sysRaised = "ValueError"

\* C6: the first update of a first-order plant whose time_constant is 0 raises
\* instead of returning an output, and leaves output unchanged.
ZeroTimeConstantFails ==
    (/\ sysCall.op = "update" /\ sysSteps = 1
     /\ sysPre.system_type = "First Order" /\ sysPre.time_constant = Zero) =>
        /\ sysRaised # "none"
        /\ sysRet = None
        /\ sys.output = sysPre.output

\* all updates since the state was last set used the same input and step
ConstantInput == \A k \in 1..Len(applied) : applied[k] = applied[1]

\* C10: n updates of an integrator with a constant input u and step dt from the
\* zero-initialized or reset state leave y = K*u*n*dt, and each returns the output
\* it stored.
IntegratorExact ==
    (sys.system_type = "Integrator" /\ sysRaised = "none" /\ fromZero /\ ConstantInput) =>
        /\ Len(applied) = 0 => sys.output = Zero
        /\ Len(applied) > 0 =>
                /\ sys.output = RMul(RMul(RMul(sys.gain, applied[1][1]), R(Len(applied))),
                                     applied[1][2])
                /\ sysRet = sys.output

\* two updates with the same input and step after a reset, with a gain other than 1
IntegratorWitness ==
    /\ sys.system_type = "Integrator" /\ sys.gain # R(1)
    /\ fromZero /\ sysSteps = 3 /\ Len(applied) = 2 /\ ConstantInput
    /\ sys.output # Zero

\* C12: for a first-order or integrator plant the initial rate given to
\* set_initial_conditions is ignored: a plant given another rate with the same
\* initial output returns the same outputs to the same later updates, and
\* get_system_info reports the same.
InitialRateIgnored ==
    sys.system_type \in {"First Order", "Integrator"} =>
        /\ sysRet = twin.ret
        /\ sysRaised = twin.raised
        /\ GetSystemInfo(sys) = GetSystemInfo(twin.obj)

\* an update of a first-order or integrator plant whose stored rate differs from the
\* twin's
InitialRateWitness ==
    /\ sys.system_type \in {"First Order", "Integrator"}
    /\ sys.output_dot # twin.obj.output_dot
    /\ sysCall.op = "update" /\ sysRaised = "none" /\ sysRet # NonFinite
    /\ sysRet # sysPre.output

-----------------------------------------------------------------------------
(* Properties of a simulation run *)

\* a run was produced and stored
Produced == pc = "done"

\* C7: in a produced run output[0] = 0; control_signal[k-1] is what the k-th PID
\* update returned for error[k-1] and output[k] what the k-th plant update returned
\* for control_signal[k-1], PID and plant updates alternating, N-1 of each;
\* error[k] = setpoint - output[k] for every k, the last included; and
\* control_signal[N-1] = control_signal[N-2].
RunDataFlow ==
    Produced =>
        LET d == simulation_data
            n == time_steps
        IN  /\ d.output[1] = Zero
            /\ Len(calls) = 2 * (n - 1)
            /\ \A k \in 1..(n - 1) :
                    /\ calls[2 * k - 1] =
                            [obj |-> "pid", arg |-> d.error[k], ret |-> d.control_signal[k]]
                    /\ calls[2 * k] =
                            [obj |-> "plant", arg |-> d.control_signal[k], ret |-> d.output[k + 1]]
            /\ \A k \in 1..n : d.error[k] = RSub(settings.setpoint, d.output[k])
            /\ d.control_signal[n] = d.control_signal[n - 1]

\* a produced run of four samples whose outputs and controls are not all alike
RunDataFlowWitness ==
    /\ Produced /\ time_steps = 4
    /\ simulation_data.output[4] # Zero
    /\ simulation_data.output[4] # simulation_data.output[3]
    /\ simulation_data.control_signal[1] # simulation_data.control_signal[2]
    /\ simulation_data.error[4] # Zero

TimeAxisStepsByDt ==
    Produced =>
        \A k \in 1..Len(simulation_data.time) :
            simulation_data.time[k] = RMul(R(k - 1), main_dt)

-----------------------------------------------------------------------------
(* Properties of calculate_settling_time *)

\* calculate_settling_time has returned
Measured == metric # None /\ metric.settling_time # None

\* |output[k] - setpoint| <= 2% * setpoint for the k-th sample
Within(k) ==
    RLe(RAbs(RSub(metric.output[k], metric.setpoint)), RMul(metric.setpoint, tolerance))

\* the tolerance holds for the k-th and every later sample
SettledFrom(k) == \A j \in k..Len(metric.output) : Within(j)

\* the returned time is that of the first sample from which the tolerance holds
FirstSettledTime ==
    \E k \in 2..Len(metric.output) :
        /\ SettledFrom(k)
        /\ ~Within(k - 1)
        /\ metric.settling_time = metric.time_array[k]

\* C16 as stated: calculate_settling_time returns the first sample time t_k such
\* that the tolerance holds for every sample j >= k, and 0 when every sample is
\* within tolerance, so the tolerance holds at and after the returned time.
SettlingTimeIsSettled ==
    Measured =>
        IF SettledFrom(1) THEN metric.settling_time = Zero ELSE FirstSettledTime

\* C16, amended: calculate_settling_time returns 0 when every sample is within
\* tolerance; when some sample is outside and the last sample is within, it
\* returns the first sample time t_k such that the tolerance holds for every
\* sample j >= k; when the last sample is outside tolerance it returns the last
\* sample time, at which the tolerance does not hold.
SettlingTimeOrEndOfRun ==
    Measured =>
        IF SettledFrom(1) THEN metric.settling_time = Zero
        ELSE IF Within(Len(metric.output)) THEN FirstSettledTime
        ELSE metric.settling_time = metric.time_array[Len(metric.output)]

\* three samples of which the second is the last one outside tolerance
SettlingTimeWitness ==
    /\ Measured /\ Len(metric.output) = 3
    /\ ~Within(2) /\ Within(3)
    /\ metric.settling_time = metric.time_array[3]
    /\ metric.settling_time # metric.time_array[2]
    /\ metric.settling_time # Zero

-----------------------------------------------------------------------------
(* Specifications *)

\* no call has been made on the controller
IdlePIDCalls ==
    /\ pre = None
    /\ call = NoCall
    /\ ret = None
    /\ fresh = None
    /\ freshRet = None
    /\ resetFrom = None
    /\ steps = 0
    /\ retunes = 0

\* no call has been made on the plant
IdlePlantCalls ==
    /\ sysRaised = "none"
    /\ sysPre = None
    /\ sysCall = NoSysCall
    /\ sysRet = None
    /\ applied = <<>>
    /\ fromZero = TRUE
    /\ sysSteps = 0
    /\ twin = None

\* no run is under way
IdleRun ==
    /\ settings = None
    /\ sim_time = Zero
    /\ pc = "idle"
    /\ time_steps = 0
    /\ time_array = <<>>
    /\ setpoint_array = <<>>
    /\ output_array = <<>>
    /\ control_signal_array = <<>>
    /\ error_array = <<>>
    /\ i = 0
    /\ calls = <<>>
    /\ simulation_data = NoData

\* a PIDController under arbitrary calls
Init == InitPID /\ sys = None /\ IdlePlantCalls /\ IdleRun /\ metric = None

Next ==
    \/ Update /\ UNCHANGED <<plantVars, runVars, metricVars>>
    \/ Reset /\ UNCHANGED <<plantVars, runVars, metricVars>>
    \/ SetGains /\ UNCHANGED <<plantVars, runVars, metricVars>>
    \/ SetOutputLimits /\ UNCHANGED <<plantVars, runVars, metricVars>>

Spec == Init /\ [][Next]_vars

\* a SystemSimulation under arbitrary calls
InitP == InitPlant /\ pid = None /\ IdlePIDCalls /\ IdleRun /\ metric = None

NextP ==
    \/ SysUpdate /\ UNCHANGED <<pidVars, runVars, metricVars>>
    \/ SysReset /\ UNCHANGED <<pidVars, runVars, metricVars>>
    \/ SysSetInitialConditions /\ UNCHANGED <<pidVars, runVars, metricVars>>

SpecPlant == InitP /\ [][NextP]_vars

\* a simulation run
InitR == InitRun /\ pid = None /\ sys = None /\ IdlePIDCalls /\ IdlePlantCalls /\ metric = None

NextR ==
    \/ RunSetup /\ UNCHANGED <<pidCalls, plantCalls, metricVars>>
    \/ LoopPID /\ UNCHANGED <<pidCalls, plantCalls, metricVars>>
    \/ LoopPlant /\ UNCHANGED <<pidCalls, plantCalls, metricVars>>
    \/ FinishRun /\ UNCHANGED <<pidCalls, plantCalls, metricVars>>

SpecRun == InitR /\ [][NextR]_vars

\* calculate_settling_time on arbitrary samples
InitM == InitMetric /\ pid = None /\ sys = None /\ IdlePIDCalls /\ IdlePlantCalls /\ IdleRun

NextM ==
    \/ SettlingTime /\ UNCHANGED <<pidVars, plantVars, runVars>>

SpecMetric == InitM /\ [][NextM]_vars

====
